---- MODULE Spec2Model ----
(***************************************************************************)
(* egad (src/index.js): download() keeps a working copy of a Git           *)
(* repository in a cache directory, generate() renders or copies the       *)
(* files of a source tree into a destination tree, scaffold() combines     *)
(* the two.                                                                *)
(***************************************************************************)
EXTENDS Integers, Sequences, FiniteSets, TLC

(***************************************************************************)
(* Bounds of the model.                                                    *)
(***************************************************************************)
\* Longest repository locator (in characters).
MaxLocLen == 2
\* Highest revision the remote branch reaches.
MaxRev == 1

(***************************************************************************)
(* Path Resolver: destPath = _.pipe(_.kebabCase, cachedir).                *)
(* A locator is a sequence of characters over an alphabet holding an       *)
(* upper-case letter, a lower-case letter and a character that is no       *)
(* letter or digit ("-" stands for ":", "/", ".", "!", ...).               *)
(***************************************************************************)
Chars == {"A", "a", "-"}

RECURSIVE SeqsUpTo(_)
SeqsUpTo(n) ==
  IF n = 0 THEN {<<>>}
  ELSE LET shorter == SeqsUpTo(n - 1)
       IN  shorter \cup {Append(s, ch) : s \in {t \in shorter : Len(t) = n - 1}, ch \in Chars}

Locators == SeqsUpTo(MaxLocLen) \ {<<>>}

IsUpper(ch) == ch = "A"
IsLower(ch) == ch = "a"
IsBreak(ch) == ch = "-"
ToLower(ch) == IF ch = "A" THEN "a" ELSE ch

\* lodash words(): a new word starts at position i of s (i > 1, s[i] a
\* letter) after a break character, between a lower-case and an upper-case
\* letter, and before the last letter of an upper-case run that a
\* lower-case letter follows ("AAa" is the words "A", "Aa").
WordStart(s, i) ==
  \/ IsBreak(s[i - 1])
  \/ IsLower(s[i - 1]) /\ IsUpper(s[i])
  \/ IsUpper(s[i - 1]) /\ IsUpper(s[i]) /\ i < Len(s) /\ IsLower(s[i + 1])

RECURSIVE KebabFrom(_, _, _)
KebabFrom(s, i, acc) ==
  IF i > Len(s) THEN acc
  ELSE IF IsBreak(s[i]) THEN KebabFrom(s, i + 1, acc)
  ELSE IF acc # <<>> /\ i > 1 /\ WordStart(s, i)
       THEN KebabFrom(s, i + 1, acc \o <<"-", ToLower(s[i])>>)
       ELSE KebabFrom(s, i + 1, Append(acc, ToLower(s[i])))

\* _.kebabCase: the words of the string, lower-cased, joined by "-".
kebabCase(s) == KebabFrom(s, 1, <<>>)

\* A path is a sequence of segments. xdgCachedir is the user's cache
\* directory (or the temp directory), cachedir() the cache root under it.
xdgCachedir == << <<"x">> >>
cachedir == Append(xdgCachedir, <<".egad-templates">>)

\* path.join drops an empty segment: an empty slug yields the cache root.
PathJoin(p, seg) == IF seg = <<>> THEN p ELSE Append(p, seg)

destPath(u) == PathJoin(cachedir, kebabCase(u))

\* A destination the caller names with opts.dest, outside the cache.
ElsewhereDir == << <<"o">> >>
ExplicitDests == {ElsewhereDir}
\* opts.dest left out
NoDest == <<>>

\* The defaults taking precedence over the caller's options.
optsDestDefaultsWin(u, destOpt) == destPath(u)

\* _.defaults({dest: destPath(url), ...}, opts)
optsDest(u, destOpt) == IF destOpt = NoDest THEN destPath(u) ELSE destOpt

IsPrefix(p, q) == Len(p) <= Len(q) /\ SubSeq(q, 1, Len(p)) = p
\* q lies below directory p
IsUnder(q, p) == IsPrefix(p, q) /\ p # q
Ancestors(d, p) == {q \in DOMAIN d : IsUnder(p, q)}
Descendants(d, p) == {q \in DOMAIN d : IsUnder(q, p)}

(***************************************************************************)
(* The file system at the cache paths.  An entry is nothing, a regular     *)
(* file, a plain directory (empty, or full of things that are no           *)
(* repository) or a Git working copy at a revision of the remote branch:   *)
(* clean, diverged (local commits that conflict with the remote branch)    *)
(* or rebasing (a rebase stopped on a conflict).                           *)
(***************************************************************************)
None == [kind |-> "none", st |-> "-", rev |-> 0]
File == [kind |-> "file", st |-> "-", rev |-> 0]
Dir(st) == [kind |-> "dir", st |-> st, rev |-> 0]
Repo(st, rev) == [kind |-> "repo", st |-> st, rev |-> rev]

Revs == 0..MaxRev
Entries ==
  {None, File} \cup {Dir(st) : st \in {"empty", "full"}}
    \cup {Repo(st, r) : st \in {"clean", "diverged", "rebasing"}, r \in Revs}

\* stats.isDirectory()
isDirectory(e) == e.kind \in {"dir", "repo"}

\* Every entry lies in directories.
DiskOK(d) ==
  \A p \in DOMAIN d : d[p].kind # "none" => \A a \in Ancestors(d, p) : isDirectory(d[a])

EmptyDir(d, p) ==
  d[p] = Dir("empty") /\ \A q \in Descendants(d, p) : d[q].kind = "none"

(***************************************************************************)
(* State.                                                                  *)
(***************************************************************************)
VARIABLES
  url,     \* the repository locator the calls are made for
  destOpt, \* the opts.dest the calls are made with (NoDest: left out)
  disk,    \* the file system at the cache root and at the target path
  dl,      \* the download() calls: slot -> the call's record
  prev,    \* the last settled download() call before the one of slot 1
  src,     \* the source directory of generate()
  tree,    \* the files below the source directory: path -> bytes
  data,    \* the value the template data gives the identifier n
  out,     \* the destination tree: DestPaths -> entry
  gen,     \* the generate() call
  prevGen, \* the last settled generate() call before it
  sc       \* the scaffold() call

dlVars == <<url, destOpt, disk, dl, prev>>
genVars == <<src, tree, data, out, gen, prevGen>>
scVars == <<sc>>

Slots == {1, 2}

NoCall ==
  [pc |-> "idle", dest |-> NoDest, offline |-> FALSE,
   pre |-> <<>>, log |-> <<>>, caught |-> "", err |-> "", result |-> NoDest]

\* What is kept of a settled call: its options and its result.
Outcome(r) ==
  [pc |-> r.pc, offline |-> r.offline, result |-> r.result]

Settled(r) == r.pc \in {"done", "failed"}
Logged(r, op) == \E i \in 1..Len(r.log) : r.log[i].op = op
LoggedOk(r, op) == \E i \in 1..Len(r.log) : r.log[i] = [op |-> op, ok |-> TRUE]
Invoked(r, op) == r.pc = op \/ Logged(r, op)
Count(r, op) ==
  Cardinality({i \in 1..Len(r.log) : r.log[i].op = op}) + (IF r.pc = op THEN 1 ELSE 0)

Done(r, op, ok) == Append(r.log, [op |-> op, ok |-> ok])

\* No scaffold() call.  pre: the destination tree the call found; source:
\* the directory generate() was called on; wc: the disk at that moment.
NoScaffold ==
  [pc |-> "idle", offline |-> FALSE, overwrite |-> TRUE, source |-> NoDest,
   pre |-> <<>>, wc |-> <<>>, err |-> ""]

(***************************************************************************)
(* The file-system and Git operations download() calls.                    *)
(***************************************************************************)
\* mkdirp(p): creates the directory unless something is there; fails on a
\* regular file.
MkdirpOk(d, p) == d[p].kind # "file" /\ \A a \in Ancestors(d, p) : d[a].kind # "file"
Mkdirp(d, p) ==
  [q \in DOMAIN d |->
     IF (q = p \/ q \in Ancestors(d, p)) /\ d[q].kind = "none" THEN Dir("empty") ELSE d[q]]

\* rimraf(p): removes p and all below it; nothing there is no error, a
\* regular file on the way to p is one.
RimrafOk(d, p) == \A a \in Ancestors(d, p) : d[a].kind # "file"
Rimraf(d, p) == [q \in DOMAIN d |-> IF IsPrefix(p, q) THEN None ELSE d[q]]

\* The pull's error dropped.
PullOkErrorDropped(d, p, net) == TRUE

\* git pull --rebase <remote> <branch> in directory p, the remote branch
\* being at revision head: succeeds on a clean working copy and brings it to
\* head; on a diverged one the fetch succeeds and the rebase stops on the
\* conflict; fails without a change anywhere else.
PullOk(d, p, net) == net /\ d[p].kind = "repo" /\ d[p].st = "clean"
Pull(d, p, net, head) ==
  IF net /\ d[p].kind = "repo" /\ d[p].st = "clean"
    THEN [d EXCEPT ![p] = Repo("clean", head)]
  ELSE IF net /\ d[p].kind = "repo" /\ d[p].st = "diverged"
    THEN [d EXCEPT ![p] = Repo("rebasing", d[p].rev)]
  ELSE d

\* git clone <url> p: needs nothing or an empty directory at p; creates the
\* leading directories; a failed clone leaves nothing behind.
CloneOk(d, p, net) ==
  /\ net
  /\ d[p].kind = "none" \/ EmptyDir(d, p)
  /\ \A a \in Ancestors(d, p) : d[a].kind # "file"
Clone(d, p, head) ==
  [q \in DOMAIN d |->
     IF q = p THEN Repo("clean", head)
     ELSE IF q \in Ancestors(d, p) /\ d[q].kind = "none" THEN Dir("empty")
     ELSE d[q]]

(***************************************************************************)
(* download(url, opts), lines 39-84, one action per asynchronous step.     *)
(***************************************************************************)
\* The call: the option defaults, then mkdirp(cachedir()) is started.
downloadCall(c, offline) ==
  /\ dl[c].pc \in {"idle", "done", "failed"}
  /\ dl' = [dl EXCEPT ![c] =
       [NoCall EXCEPT !.pc = "mkdirp", !.dest = optsDest(url, destOpt),
                      !.offline = offline, !.pre = disk]]
  /\ prev' = IF c = 1 /\ Settled(dl[c]) THEN Outcome(dl[c]) ELSE prev
  /\ UNCHANGED <<url, destOpt, disk>>

\* download() called by the caller itself.
download(c, offline) == downloadCall(c, offline) /\ UNCHANGED <<genVars, scVars>>

\* mkdirp(cachedir()) settles; then stat(opts.dest) is started.
MkdirpDone(c) ==
  /\ dl[c].pc = "mkdirp"
  /\ \E fault \in BOOLEAN :
       IF ~fault /\ MkdirpOk(disk, cachedir)
         THEN /\ disk' = Mkdirp(disk, cachedir)
              /\ dl' = [dl EXCEPT ![c].pc = "stat",
                                  ![c].log = Done(dl[c], "mkdirp", TRUE)]
         ELSE /\ disk' = disk
              /\ dl' = [dl EXCEPT ![c].pc = "catch", ![c].caught = "mkdirp",
                                  ![c].log = Done(dl[c], "mkdirp", FALSE)]
  /\ UNCHANGED <<url, destOpt, prev, genVars, scVars>>

\* stats.isDirectory() left unchecked.
StatDoneUnchecked(c) ==
  /\ dl[c].pc = "stat"
  /\ \E fault \in BOOLEAN :
       IF fault \/ disk[dl[c].dest].kind = "none"
         THEN dl' = [dl EXCEPT ![c].pc = "catch", ![c].caught = "stat",
                               ![c].log = Done(dl[c], "stat", FALSE)]
         ELSE dl' = [dl EXCEPT ![c].pc = "pull",
                               ![c].log = Done(dl[c], "stat", TRUE)]
  /\ UNCHANGED <<url, destOpt, disk, prev, genVars, scVars>>

\* stat(opts.dest) settles; a directory: the pull is started; anything else
\* throws.
StatDone(c) ==
  /\ dl[c].pc = "stat"
  /\ \E fault \in BOOLEAN :
       IF fault \/ disk[dl[c].dest].kind = "none"
         THEN dl' = [dl EXCEPT ![c].pc = "catch", ![c].caught = "stat",
                               ![c].log = Done(dl[c], "stat", FALSE)]
       ELSE IF ~isDirectory(disk[dl[c].dest])
         THEN dl' = [dl EXCEPT ![c].pc = "catch", ![c].caught = "File exists",
                               ![c].log = Done(dl[c], "stat", TRUE)]
         ELSE dl' = [dl EXCEPT ![c].pc = "pull",
                               ![c].log = Done(dl[c], "stat", TRUE)]
  /\ UNCHANGED <<url, destOpt, disk, prev, genVars, scVars>>

\* wc.pull settles: success resolves the call with opts.dest.
PullDone(c) ==
  /\ dl[c].pc = "pull"
  /\ \E net \in BOOLEAN, head \in Revs :
       /\ head >= disk[dl[c].dest].rev
       /\ disk' = Pull(disk, dl[c].dest, net, head)
       /\ IF PullOk(disk, dl[c].dest, net)
            THEN dl' = [dl EXCEPT ![c].pc = "done", ![c].result = dl[c].dest,
                                  ![c].log = Done(dl[c], "pull", TRUE)]
            ELSE dl' = [dl EXCEPT ![c].pc = "catch", ![c].caught = "pull",
                                  ![c].log = Done(dl[c], "pull", FALSE)]
  /\ UNCHANGED <<url, destOpt, prev, genVars, scVars>>

\* The offline test negated.
CatchNegated(c) ==
  /\ dl[c].pc = "catch"
  /\ IF ~dl[c].offline
       THEN dl' = [dl EXCEPT ![c].pc = "failed", ![c].err = "No cache"]
       ELSE dl' = [dl EXCEPT ![c].pc = "rimraf"]
  /\ UNCHANGED <<url, destOpt, disk, prev, genVars, scVars>>

\* The offline test left out.
CatchAlwaysClones(c) ==
  /\ dl[c].pc = "catch"
  /\ dl' = [dl EXCEPT ![c].pc = "rimraf"]
  /\ UNCHANGED <<url, destOpt, disk, prev, genVars, scVars>>

\* The catch handler: offline rejects, online starts rimraf(opts.dest).
Catch(c) ==
  /\ dl[c].pc = "catch"
  /\ IF dl[c].offline
       THEN dl' = [dl EXCEPT ![c].pc = "failed", ![c].err = "No cache"]
       ELSE dl' = [dl EXCEPT ![c].pc = "rimraf"]
  /\ UNCHANGED <<url, destOpt, disk, prev, genVars, scVars>>

\* The clone started whether or not rimraf succeeded.
RimrafDoneUnchecked(c) ==
  /\ dl[c].pc = "rimraf"
  /\ \E fault \in BOOLEAN :
       IF fault \/ ~RimrafOk(disk, dl[c].dest)
         THEN /\ disk' = disk
              /\ dl' = [dl EXCEPT ![c].pc = "clone",
                                  ![c].log = Done(dl[c], "rimraf", FALSE)]
         ELSE /\ disk' = Rimraf(disk, dl[c].dest)
              /\ dl' = [dl EXCEPT ![c].pc = "clone",
                                  ![c].log = Done(dl[c], "rimraf", TRUE)]
  /\ UNCHANGED <<url, destOpt, prev, genVars, scVars>>

\* rimraf(opts.dest) settles; then the clone is started.
RimrafDone(c) ==
  /\ dl[c].pc = "rimraf"
  /\ \E fault \in BOOLEAN :
       IF fault \/ ~RimrafOk(disk, dl[c].dest)
         THEN /\ disk' = disk
              /\ dl' = [dl EXCEPT ![c].pc = "failed", ![c].err = "rimraf",
                                  ![c].log = Done(dl[c], "rimraf", FALSE)]
         ELSE /\ disk' = Rimraf(disk, dl[c].dest)
              /\ dl' = [dl EXCEPT ![c].pc = "clone",
                                  ![c].log = Done(dl[c], "rimraf", TRUE)]
  /\ UNCHANGED <<url, destOpt, prev, genVars, scVars>>

\* A failed clone tried again.
CloneDoneRetries(c) ==
  /\ dl[c].pc = "clone"
  /\ \E net \in BOOLEAN, head \in Revs :
       IF CloneOk(disk, dl[c].dest, net)
         THEN /\ disk' = Clone(disk, dl[c].dest, head)
              /\ dl' = [dl EXCEPT ![c].pc = "done", ![c].result = dl[c].dest,
                                  ![c].log = Done(dl[c], "clone", TRUE)]
         ELSE /\ disk' = disk
              /\ dl' = [dl EXCEPT ![c].pc = IF Count(dl[c], "clone") < 2 THEN "clone" ELSE "failed",
                                  ![c].err = "clone",
                                  ![c].log = Done(dl[c], "clone", FALSE)]
  /\ UNCHANGED <<url, destOpt, prev, genVars, scVars>>

\* wc.clone settles: success resolves the call with opts.dest, failure
\* rejects it with the clone's error.
CloneDone(c) ==
  /\ dl[c].pc = "clone"
  /\ \E net \in BOOLEAN, head \in Revs :
       IF CloneOk(disk, dl[c].dest, net)
         THEN /\ disk' = Clone(disk, dl[c].dest, head)
              /\ dl' = [dl EXCEPT ![c].pc = "done", ![c].result = dl[c].dest,
                                  ![c].log = Done(dl[c], "clone", TRUE)]
         ELSE /\ disk' = disk
              /\ dl' = [dl EXCEPT ![c].pc = "failed", ![c].err = "clone",
                                  ![c].log = Done(dl[c], "clone", FALSE)]
  /\ UNCHANGED <<url, destOpt, prev, genVars, scVars>>

(***************************************************************************)
(* File contents.  A file holds bytes; readFile(..., 'utf8') decodes them   *)
(* to a string and writeFile(..., {encoding: 'utf8'}) encodes a string.    *)
(* "FF" is a byte that is no UTF-8; "EF" "BF" "BD" are the three bytes of  *)
(* U+FFFD, the character the decoder puts for a byte it cannot decode.     *)
(***************************************************************************)
AsciiBytes == {"{", "}", "n", "W"}

RECURSIVE Decode(_)
Decode(b) ==
  IF b = <<>> THEN <<>>
  ELSE IF b[1] \in AsciiBytes THEN <<b[1]>> \o Decode(Tail(b))
  ELSE IF Len(b) >= 3 /\ SubSeq(b, 1, 3) = <<"EF", "BF", "BD">>
    THEN <<"U+FFFD">> \o Decode(SubSeq(b, 4, Len(b)))
  ELSE <<"U+FFFD">> \o Decode(Tail(b))

RECURSIVE Encode(_)
Encode(str) ==
  IF str = <<>> THEN <<>>
  ELSE IF str[1] = "U+FFFD" THEN <<"EF", "BF", "BD">> \o Encode(Tail(str))
  ELSE <<str[1]>> \o Encode(Tail(str))

\* /{{([^{}]+)}}/g.test(str): two opening braces, one or more characters
\* that are no brace, two closing braces.
Brace(ch) == ch \in {"{", "}"}
hasMarker(str) ==
  \E i \in 1..Len(str) : \E j \in (i + 3)..(Len(str) - 1) :
    /\ str[i] = "{" /\ str[i + 1] = "{"
    /\ \A k \in (i + 2)..(j - 1) : ~Brace(str[k])
    /\ str[j] = "}" /\ str[j + 1] = "}"

\* The Handlebars engine (consolidate's handlebars.render) on the strings of
\* this alphabet: text is copied; {{id}} and {{{id}}} are replaced by the
\* value of id in the context, and by nothing when it has no such value;
\* an expression that is not closed, or has no identifier, is a parse error.
IdChar(ch) == ch \in {"n", "W", "U+FFFD"}
Lookup(ctx, id) == IF id = <<"n">> THEN ctx ELSE <<>>
RenderFailed == [ok |-> FALSE, out |-> <<>>]

RECURSIVE IdEnd(_, _)
\* The position after the identifier that starts at i.
IdEnd(str, i) == IF i <= Len(str) /\ IdChar(str[i]) THEN IdEnd(str, i + 1) ELSE i

StartsWith(str, i, pat) ==
  i + Len(pat) - 1 <= Len(str) /\ SubSeq(str, i, i + Len(pat) - 1) = pat

RECURSIVE RenderFrom(_, _, _)
RenderFrom(str, i, ctx) ==
  IF i > Len(str) THEN [ok |-> TRUE, out |-> <<>>]
  ELSE IF StartsWith(str, i, <<"{", "{">>)
    THEN LET open == IF StartsWith(str, i, <<"{", "{", "{">>) THEN 3 ELSE 2
             close == [k \in 1..open |-> "}"]
             e == IdEnd(str, i + open)
         IN  IF e > i + open /\ StartsWith(str, e, close)
               THEN LET rest == RenderFrom(str, e + open, ctx)
                    IN  IF rest.ok
                          THEN [ok |-> TRUE,
                                out |-> Lookup(ctx, SubSeq(str, i + open, e - 1)) \o rest.out]
                          ELSE RenderFailed
               ELSE RenderFailed
  ELSE LET rest == RenderFrom(str, i + 1, ctx)
       IN  IF rest.ok THEN [ok |-> TRUE, out |-> <<str[i]>> \o rest.out] ELSE RenderFailed

render(str, ctx) == RenderFrom(str, 1, ctx)

(***************************************************************************)
(* The source tree of generate().  A path below the source directory is a  *)
(* sequence of names, a name a pair <<stem, extension>> ("a.txt" is        *)
(* <<"a", ".txt">>, ".git" is <<"", ".git">>).                             *)
(***************************************************************************)
FileA == << <<"a", ".txt">> >>
FileB == << <<"d", "">>, <<"b", ".txt">> >>
FilePng == << <<"logo", ".PNG">> >>
FileGit == << <<"", ".git">>, <<"config", "">> >>
FileNestedGit == << <<"d", "">>, <<"", ".git">>, <<"HEAD", "">> >>
FileGitSuffix == << <<"x", ".git">>, <<"c", ".txt">> >>
OtherFiles == {FilePng, FileGit, FileNestedGit, FileGitSuffix}

\* What a source file may hold: text, a template, braces with nothing in
\* them, a template Handlebars cannot parse, a byte that is no UTF-8, nothing.
Template == <<"{", "{", "n", "}", "}">>
SrcContents ==
  {<<"n">>, Template, <<"{", "{", "}", "}">>, Template \o <<"{", "{">>, <<"FF">>, <<>>}

\* The source trees: a.txt with any content or missing, d/b.txt with text or
\* missing, and the four other files (each a template) all there or not.
SrcTrees ==
  {ta @@ tb @@ to :
     ta \in {<<>>} \cup {(FileA :> c) : c \in SrcContents},
     tb \in {<<>>, (FileB :> <<"n">>)},
     to \in {<<>>, [f \in OtherFiles |-> Template]}}

\* The tree with every file, a.txt a template.
FullTree == (FileA :> Template) @@ (FileB :> <<"n">>) @@ [f \in OtherFiles |-> Template]

\* The source directory: there or not, and its name.
SrcRoots ==
  {[exists |-> TRUE, name |-> <<"src", "">>],
   [exists |-> TRUE, name |-> <<"tpl", ".git">>],
   [exists |-> FALSE, name |-> <<"src", "">>]}

\* _.negate(_.endsWith('.git')) on a directory's path
\* No directory pruned.
filterDirAny(name) == TRUE

filterDir(name) == name[2] # ".git"

\* The files the walk reaches: those with no pruned directory on the way,
\* the source directory included.
Walked(root, t) ==
  IF ~filterDir(root.name) THEN {}
  ELSE {f \in DOMAIN t : \A i \in 1..(Len(f) - 1) : filterDir(f[i])}

\* is-binary-path: the extension, lower-cased, is in the list of binary
\* extensions; a name that starts with its only dot has no extension.
BinaryExtensions == {".png"}
ToLowerExt(ext) == IF ext = ".PNG" THEN ".png" ELSE ext
extname(name) == IF name[1] = "" THEN "" ELSE name[2]
\* No path taken for binary.
isBinaryPathNever(f) == FALSE

isBinaryPath(f) == ToLowerExt(extname(f[Len(f)])) \in BinaryExtensions

(***************************************************************************)
(* The destination tree: the destination directory (the empty path) and    *)
(* the paths below it generate() can write.  path.join(dest,               *)
(* path.relative(source, sourceFilepath)) is the file's path below the     *)
(* source directory, taken below the destination directory.                *)
(***************************************************************************)
DestRoot == <<>>
DirD == << <<"d", "">> >>
DestPaths == {DestRoot, FileA, DirD, FileB, FilePng}

Absent == [kind |-> "none", data |-> <<>>]
Folder == [kind |-> "dir", data |-> <<>>]
Written(bytes) == [kind |-> "file", data |-> bytes]
OldContent == <<"W", "W">>

\* path.dirname and the directories above a path
dirname(f) == SubSeq(f, 1, Len(f) - 1)
Above(f) == {SubSeq(f, 1, k) : k \in 0..(Len(f) - 1)}

OutOK(o) == \A f \in DestPaths : o[f].kind # "none" => \A a \in Above(f) : o[a].kind = "dir"

\* The destination trees a call may find; none has the binary file.
InitOut ==
  {o \in [DestPaths -> {Absent, Folder, Written(OldContent)}] :
     OutOK(o) /\ o[FilePng] = Absent}

\* mkdirp(p) in the destination tree
DestMkdirpOk(o, p) == \A a \in Above(p) \cup {p} : o[a].kind # "file"
DestMkdirp(o, p) ==
  [q \in DestPaths |-> IF q \in Above(p) \cup {p} /\ o[q].kind = "none" THEN Folder ELSE o[q]]

(***************************************************************************)
(* generate(source, dest, data, opts), lines 97-152.                       *)
(***************************************************************************)
\* late: the files written after the call had been rejected.
NoGen ==
  [pc |-> "idle", overwrite |-> TRUE, todo |-> {}, queue |-> <<>>, jobs |-> <<>>,
   pre |-> <<>>, result |-> <<>>, err |-> "", late |-> {}]

\* A per-file job: the read (and render), the mkdirp of the parent
\* directory, and the write that follows the two.
NewJob == [rd |-> "pending", rend |-> FALSE, str |-> <<>>, mk |-> "pending", wr |-> "wait"]

GenSettled(g) == g.pc \in {"done", "failed"}
\* What is kept of a settled call: whether it succeeded, and with which
\* opts.overwrite.
GenOutcome(g) ==
  IF g.pc = "done" THEN [pc |-> "done", overwrite |-> g.overwrite]
  ELSE [pc |-> "none", overwrite |-> TRUE]
InFlight(j) == j.rd = "pending" \/ j.mk = "pending" \/ j.wr = "pending"
JobFailed(j) == j.rd \in {"EREAD", "ERENDER"} \/ j.mk = "EMKDIR" \/ j.wr = "EWRITE"
JobOk(j) == j.wr \in {"written", "skipped"}
Quiet(g) == \A f \in DOMAIN g.jobs : ~InFlight(g.jobs[f])

\* _.compact of the jobs' values, in the order of the queue: the paths
\* written; a skipped job's value is undefined.
\* Every job's value kept, the undefined ones too.
compactKeepsAll(queue, jobs) == queue

compact(queue, jobs) == SelectSeq(queue, LAMBDA f : jobs[f].wr = "written")

\* Promise.all over the jobs: rejected when the first job fails, fulfilled
\* when the last job has its value.  g is the call, jobs its jobs after the
\* step, e the step's error ("" when it has none).
\* The aggregate rejected only once every job has settled.
AggregateWaitsForAll(g, jobs, e) ==
  IF g.pc # "jobs" \/ \E f \in DOMAIN jobs : InFlight(jobs[f]) THEN [g EXCEPT !.jobs = jobs]
  ELSE IF \E f \in DOMAIN jobs : JobFailed(jobs[f])
    THEN [g EXCEPT !.jobs = jobs, !.pc = "failed", !.err = "late"]
  ELSE [g EXCEPT !.jobs = jobs, !.pc = "done", !.result = compact(g.queue, jobs)]

Aggregate(g, jobs, e) ==
  IF g.pc # "jobs" THEN [g EXCEPT !.jobs = jobs]
  ELSE IF e # "" THEN [g EXCEPT !.jobs = jobs, !.pc = "failed", !.err = e]
  ELSE IF \A f \in DOMAIN jobs : JobOk(jobs[f])
    THEN [g EXCEPT !.jobs = jobs, !.pc = "done", !.result = compact(g.queue, jobs)]
  ELSE [g EXCEPT !.jobs = jobs]

\* The write started on the read alone.
JoinedOnRead(j) == IF j.rd = "ok" THEN [j EXCEPT !.wr = "pending"] ELSE j

\* The job goes on to writeFile once the read and the mkdirp both succeeded.
Joined(j) == IF j.rd = "ok" /\ j.mk = "ok" THEN [j EXCEPT !.wr = "pending"] ELSE j

\* The call: the option default, then mkdirp(dest) is started.
generateCall(overwrite) ==
  /\ gen.pc \in {"idle", "done", "failed"}
  /\ Quiet(gen)
  /\ gen' = [NoGen EXCEPT !.pc = "mkdirp", !.overwrite = overwrite, !.pre = out]
  /\ prevGen' = IF GenSettled(gen) THEN GenOutcome(gen) ELSE prevGen
  /\ UNCHANGED <<tree, data, out>>

\* generate() called by the caller itself, on the source directory src.
generate(overwrite) == generateCall(overwrite) /\ UNCHANGED <<scVars, dlVars, src>>

\* mkdirp(dest) settles; then the walk of the source directory is started.
GenMkdirpDone ==
  /\ gen.pc = "mkdirp"
  /\ \E fault \in BOOLEAN :
       IF ~fault /\ DestMkdirpOk(out, DestRoot)
         THEN /\ out' = DestMkdirp(out, DestRoot)
              /\ gen' = [gen EXCEPT !.pc = "walk",
                                    !.todo = IF src.exists THEN Walked(src, tree) ELSE {}]
         ELSE /\ out' = out
              /\ gen' = [gen EXCEPT !.pc = "failed", !.err = "mkdirp"]
  /\ UNCHANGED <<scVars, dlVars, src, tree, data, prevGen>>

\* The walker's 'file' event: a file that is not binary is queued.
WalkFile(f) ==
  /\ gen.pc = "walk"
  /\ f \in gen.todo
  /\ gen' = [gen EXCEPT !.todo = gen.todo \ {f},
                        !.queue = IF ~isBinaryPath(f) THEN Append(gen.queue, f)
                                  ELSE gen.queue]
  /\ UNCHANGED <<scVars, dlVars, src, tree, data, out, prevGen>>

\* The error passed over: the jobs started on what was found before it.
WalkErrorPassedOver ==
  /\ gen.pc = "walk"
  /\ gen' = Aggregate([gen EXCEPT !.pc = "jobs", !.todo = {}],
                      [f \in {gen.queue[i] : i \in 1..Len(gen.queue)} |-> NewJob], "")
  /\ UNCHANGED <<scVars, dlVars, src, tree, data, out, prevGen>>

\* The walker's 'error' event (no source directory, or an error of the file
\* system on the way) rejects the call; no job is made of the queue.
WalkError ==
  /\ gen.pc = "walk"
  /\ gen' = [gen EXCEPT !.pc = "failed", !.err = "walk", !.todo = {}]
  /\ UNCHANGED <<scVars, dlVars, src, tree, data, out, prevGen>>

\* The walker's 'end' event: a job per queued file is started, its readFile
\* and its mkdirp at once.
WalkEnd ==
  /\ gen.pc = "walk"
  /\ src.exists
  /\ gen.todo = {}
  /\ gen' = Aggregate([gen EXCEPT !.pc = "jobs"],
                      [f \in {gen.queue[i] : i \in 1..Len(gen.queue)} |-> NewJob], "")
  /\ UNCHANGED <<scVars, dlVars, src, tree, data, out, prevGen>>

\* A render error dropped, the string passed on as it was read.
ReadDoneRenderErrorDropped(f) ==
  /\ f \in DOMAIN gen.jobs
  /\ gen.jobs[f].rd = "pending"
  /\ \E fault \in BOOLEAN :
       LET j == gen.jobs[f]
           str == Decode(tree[f])
           r == render(str, data)
           jj == IF fault THEN [j EXCEPT !.rd = "EREAD"]
                 ELSE IF ~hasMarker(str) THEN [j EXCEPT !.rd = "ok", !.str = str]
                 ELSE IF r.ok THEN [j EXCEPT !.rd = "ok", !.rend = TRUE, !.str = r.out]
                 ELSE [j EXCEPT !.rd = "ok", !.rend = TRUE, !.str = str]
       IN  gen' = Aggregate(gen, [gen.jobs EXCEPT ![f] = Joined(jj)],
                            IF jj.rd = "ok" \/ j.mk = "EMKDIR" THEN "" ELSE jj.rd)
  /\ UNCHANGED <<scVars, dlVars, src, tree, data, out, prevGen>>

\* readFile(sourceFilepath, 'utf8') settles; a string with a marker is
\* rendered, any other is passed on as it is.
ReadDone(f) ==
  /\ f \in DOMAIN gen.jobs
  /\ gen.jobs[f].rd = "pending"
  /\ \E fault \in BOOLEAN :
       LET j == gen.jobs[f]
           str == Decode(tree[f])
           r == render(str, data)
           jj == IF fault THEN [j EXCEPT !.rd = "EREAD"]
                 ELSE IF ~hasMarker(str) THEN [j EXCEPT !.rd = "ok", !.str = str]
                 ELSE IF r.ok THEN [j EXCEPT !.rd = "ok", !.rend = TRUE, !.str = r.out]
                 ELSE [j EXCEPT !.rd = "ERENDER", !.rend = TRUE]
       IN  gen' = Aggregate(gen, [gen.jobs EXCEPT ![f] = Joined(jj)],
                            IF jj.rd = "ok" \/ j.mk = "EMKDIR" THEN "" ELSE jj.rd)
  /\ UNCHANGED <<scVars, dlVars, src, tree, data, out, prevGen>>

\* mkdirp(path.dirname(destFilepath)) settles.
MkdirDone(f) ==
  /\ f \in DOMAIN gen.jobs
  /\ gen.jobs[f].mk = "pending"
  /\ \E fault \in BOOLEAN :
       LET j == gen.jobs[f]
           ok == ~fault /\ DestMkdirpOk(out, dirname(f))
           jj == [j EXCEPT !.mk = IF ok THEN "ok" ELSE "EMKDIR"]
       IN  /\ out' = IF ok THEN DestMkdirp(out, dirname(f)) ELSE out
           /\ gen' = Aggregate(gen, [gen.jobs EXCEPT ![f] = Joined(jj)],
                               IF ok \/ j.rd \in {"EREAD", "ERENDER"} THEN "" ELSE "EMKDIR")
  /\ UNCHANGED <<scVars, dlVars, src, tree, data, prevGen>>

\* flag: opts.overwrite ? 'w' : 'wx'
flagAlwaysW(overwrite) == "w"
flag(overwrite) == IF overwrite THEN "w" ELSE "wx"

\* What a write that fails after the file was opened leaves of the file:
\* the file as the open made it, with none of the bytes.
Truncated == Written(<<>>)

\* writeFile(destFilepath, str, {flag}) settles: the file is opened ('w'
\* creates it or empties it, 'wx' fails with EEXIST on anything that is
\* there, and the job then has no value), then the bytes are written; any
\* other error, of the open or of the write, fails the job.
WriteDone(f) ==
  /\ f \in DOMAIN gen.jobs
  /\ gen.jobs[f].wr = "pending"
  /\ \E fault \in {"none", "open", "write"} :
       LET j == gen.jobs[f]
           eexist == flag(gen.overwrite) = "wx" /\ out[f].kind # "none"
           bad == out[f].kind = "dir" \/ out[dirname(f)].kind # "dir"
           wr == IF fault = "open" THEN "EWRITE" ELSE IF eexist THEN "skipped"
                 ELSE IF bad \/ fault = "write" THEN "EWRITE" ELSE "written"
           opened == fault # "open" /\ ~eexist /\ ~bad
       IN  /\ out' = IF wr = "written" THEN [out EXCEPT ![f] = Written(Encode(j.str))]
                     ELSE IF opened THEN [out EXCEPT ![f] = Truncated]
                     ELSE out
           /\ gen' = Aggregate([gen EXCEPT !.late = IF gen.pc = "failed" /\ wr = "written"
                                                      THEN gen.late \cup {f} ELSE gen.late],
                               [gen.jobs EXCEPT ![f].wr = wr],
                               IF wr = "EWRITE" THEN wr ELSE "")
  /\ UNCHANGED <<scVars, dlVars, src, tree, data, prevGen>>

(***************************************************************************)
(* The download() calls of one caller, one after the other.                *)
(***************************************************************************)
\* What the cache root and the target may hold when the first call is made.
\* No directory above a target is itself a working copy (git would find it
\* from a plain directory below).
InitDisk(u, o) ==
  {d \in [{cachedir, optsDest(u, o)} -> Entries] :
     /\ DiskOK(d)
     /\ \A p \in DOMAIN d : \A a \in Ancestors(d, p) : d[a].kind # "repo"}

\* No generate() call, nothing to generate from.
GenIdle ==
  /\ src = [exists |-> FALSE, name |-> <<"src", "">>]
  /\ tree = <<>>
  /\ data = <<>>
  /\ out = [f \in DestPaths |-> Absent]
  /\ gen = NoGen
  /\ prevGen = GenOutcome(NoGen)

Init ==
  /\ url \in Locators
  /\ destOpt \in {NoDest} \cup ExplicitDests
  /\ disk \in InitDisk(url, destOpt)
  /\ dl = [c \in Slots |-> NoCall]
  /\ prev = Outcome(NoCall)
  /\ GenIdle
  /\ sc = NoScaffold

Next ==
  \/ \E offline \in BOOLEAN : download(1, offline)
  \/ MkdirpDone(1)
  \/ StatDone(1)
  \/ PullDone(1)
  \/ Catch(1)
  \/ RimrafDone(1)
  \/ CloneDone(1)

vars == <<dlVars, genVars, scVars>>
Spec == Init /\ [][Next]_vars

(***************************************************************************)
(* Two download() calls for one locator that overlap in time: the steps of *)
(* the two promise chains interleave in any order.                         *)
(***************************************************************************)
InitOverlap ==
  /\ url = <<"A", "a">>
  /\ destOpt = NoDest
  /\ disk \in InitDisk(url, destOpt)
  /\ dl = [c \in Slots |-> NoCall]
  /\ prev = Outcome(NoCall)
  /\ GenIdle
  /\ sc = NoScaffold

NextOverlap ==
  \E c \in Slots :
    \/ \E offline \in BOOLEAN : download(c, offline)
    \/ MkdirpDone(c)
    \/ StatDone(c)
    \/ PullDone(c)
    \/ Catch(c)
    \/ RimrafDone(c)
    \/ CloneDone(c)

SpecOverlap == InitOverlap /\ [][NextOverlap]_vars

(***************************************************************************)
(* The generate() calls of one caller, one after the other, from one       *)
(* source tree into one destination tree.                                  *)
(***************************************************************************)
\* No download() call, nothing cached.
DlIdle ==
  /\ url = <<"a">>
  /\ destOpt = NoDest
  /\ disk = [p \in {cachedir, destPath(<<"a">>)} |-> None]
  /\ dl = [c \in Slots |-> NoCall]
  /\ prev = Outcome(NoCall)

\* Data without a value for n only where a file read has a marker; a source
\* directory that is missing or pruned with one tree only.
InitGenerate ==
  /\ DlIdle
  /\ sc = NoScaffold
  /\ src \in SrcRoots
  /\ tree \in SrcTrees
  /\ (~src.exists \/ ~filterDir(src.name)) => tree = FullTree
  /\ data \in {<<>>, <<"W">>}
  /\ data = <<>> => \E f \in DOMAIN tree \ OtherFiles : hasMarker(Decode(tree[f]))
  /\ out \in InitOut
  /\ gen = NoGen
  /\ prevGen = GenOutcome(NoGen)

NextGenerate ==
  \/ \E overwrite \in BOOLEAN : generate(overwrite)
  \/ GenMkdirpDone
  \/ \E f \in DOMAIN tree : WalkFile(f)
  \/ WalkError
  \/ WalkEnd
  \/ \E f \in DOMAIN tree : ReadDone(f)
  \/ \E f \in DOMAIN tree : MkdirDone(f)
  \/ \E f \in DOMAIN tree : WriteDone(f)

SpecGenerate == InitGenerate /\ [][NextGenerate]_vars

(***************************************************************************)
(* scaffold(url, dest, data, opts), lines 162-168: download(url, opts),    *)
(* then generate(templateDir, dest, data, opts) on the path it returned.   *)
(***************************************************************************)
\* The name of the directory download() returned, as the walk sees it: no
\* such path ends in .git (a slug has no dot, and neither .egad-templates
\* nor the caller's directory ends in it).
SourceName(p) == <<"wc", "">>

\* The call: download(url, opts) is called.
scaffold(offline, overwrite) ==
  /\ sc.pc = "idle"
  /\ downloadCall(1, offline)
  /\ sc' = [NoScaffold EXCEPT !.pc = "download", !.offline = offline,
                              !.overwrite = overwrite, !.pre = out]
  /\ UNCHANGED genVars

\* generate() called whether download() succeeded or not.
ScaffoldThenUnguarded ==
  /\ sc.pc = "download"
  /\ Settled(dl[1])
  /\ generateCall(sc.overwrite)
  /\ src' = [exists |-> TRUE, name |-> SourceName(dl[1].dest)]
  /\ sc' = [sc EXCEPT !.pc = "generate", !.source = dl[1].dest, !.wc = disk]
  /\ UNCHANGED dlVars

\* download() fulfilled: the then-handler calls generate() on templateDir.
ScaffoldThen ==
  /\ sc.pc = "download"
  /\ dl[1].pc = "done"
  /\ generateCall(sc.overwrite)
  /\ src' = [exists |-> isDirectory(disk[dl[1].result]),
             name |-> SourceName(dl[1].result)]
  /\ sc' = [sc EXCEPT !.pc = "generate", !.source = dl[1].result, !.wc = disk]
  /\ UNCHANGED dlVars

\* download() rejected: the rejection passes the then-handler by.
ScaffoldRejected ==
  /\ sc.pc = "download"
  /\ dl[1].pc = "failed"
  /\ sc' = [sc EXCEPT !.pc = "failed", !.err = dl[1].err]
  /\ UNCHANGED <<dlVars, genVars>>

\* generate() settles, and scaffold() with it.
ScaffoldSettled ==
  /\ sc.pc = "generate"
  /\ GenSettled(gen)
  /\ sc' = [sc EXCEPT !.pc = gen.pc, !.err = gen.err]
  /\ UNCHANGED <<dlVars, genVars>>

\* The files of the repository: a template and Git's own; and the same with
\* a template the engine cannot parse.
RepoTree == (FileA :> Template) @@ (FileGit :> <<"n">>)
BrokenTree == [RepoTree EXCEPT ![FileA] = Template \o <<"{", "{">>]

\* One scaffold() call: the repository holds RepoTree or BrokenTree; the
\* destination directory is missing, or there with an a.txt in it.
InitScaffold ==
  /\ url = <<"A", "a">>
  /\ destOpt \in {NoDest} \cup ExplicitDests
  /\ disk \in InitDisk(url, destOpt)
  /\ dl = [c \in Slots |-> NoCall]
  /\ prev = Outcome(NoCall)
  /\ src = [exists |-> FALSE, name |-> <<"src", "">>]
  /\ tree \in {RepoTree, BrokenTree}
  /\ data = <<"W">>
  /\ out \in {[f \in DestPaths |-> Absent],
              [f \in DestPaths |-> IF f = DestRoot THEN Folder
                                   ELSE IF f = FileA THEN Written(OldContent)
                                   ELSE Absent]}
  /\ gen = NoGen
  /\ prevGen = GenOutcome(NoGen)
  /\ sc = NoScaffold

NextScaffold ==
  \/ \E offline, overwrite \in BOOLEAN : scaffold(offline, overwrite)
  \/ MkdirpDone(1)
  \/ StatDone(1)
  \/ PullDone(1)
  \/ Catch(1)
  \/ RimrafDone(1)
  \/ CloneDone(1)
  \/ ScaffoldThen
  \/ ScaffoldRejected
  \/ GenMkdirpDone
  \/ \E f \in DOMAIN tree : WalkFile(f)
  \/ WalkError
  \/ WalkEnd
  \/ \E f \in DOMAIN tree : ReadDone(f)
  \/ \E f \in DOMAIN tree : MkdirDone(f)
  \/ \E f \in DOMAIN tree : WriteDone(f)
  \/ ScaffoldSettled

SpecScaffold == InitScaffold /\ [][NextScaffold]_vars

(***************************************************************************)
(* Claims about download() (acquire).  R is the call of slot 1.            *)
(***************************************************************************)
R == dl[1]
Started == R.pc # "idle"
Target == R.dest
\* The disk is as the call found it, but for a cache root it created.
OnlyCacheRootMade == disk = R.pre \/ disk = Mkdirp(R.pre, cachedir)
\* An earlier step of the chain failed at inspection or update.
InspectOrUpdateFailed == R.caught \in {"stat", "File exists", "pull"}
\* The operations are invoked in the order of the chain, each at most once.
Rank(op) ==
  CASE op = "mkdirp" -> 1 [] op = "stat" -> 2 [] op = "pull" -> 3
    [] op = "rimraf" -> 4 [] op = "clone" -> 5
InOrder(r) ==
  /\ \A i, j \in 1..Len(r.log) : i < j => Rank(r.log[i].op) < Rank(r.log[j].op)
  /\ r.pc \in {"mkdirp", "stat", "pull", "rimraf", "clone"} =>
       \A i \in 1..Len(r.log) : Rank(r.log[i].op) < Rank(r.pc)

C2_OfflineNeverChangesState ==
  (Settled(R) /\ R.offline /\ Target # cachedir) => disk[Target] = R.pre[Target]

C4_Original ==
  (Settled(R) /\ R.pre[Target] = File) =>
    /\ R.pc = "failed" /\ R.err = "File exists"
    /\ ~Invoked(R, "pull") /\ ~Invoked(R, "rimraf") /\ ~Invoked(R, "clone")
    /\ disk[Target] = File

\* C4 amended: a target that is not a directory is never updated and the
\* conflict error never reaches the caller; an offline call fails with the
\* acquisition error, deletes and clones nothing and leaves the entry; an
\* online call goes on to delete the entry and, the delete done, to clone in
\* its place.
C4_NotADirectory ==
  (Started /\ R.pre[Target] = File) =>
    /\ ~Invoked(R, "pull")
    /\ R.err # "File exists"
    /\ R.offline =>
         /\ ~Invoked(R, "rimraf") /\ ~Invoked(R, "clone")
         /\ disk[Target] = File
         /\ Settled(R) => R.pc = "failed" /\ R.err = "No cache"
    /\ ~R.offline =>
         /\ Settled(R) => Invoked(R, "rimraf")
         /\ LoggedOk(R, "rimraf") => Invoked(R, "clone") /\ disk[Target] # File
         /\ R.pc = "done" => disk[Target].kind = "repo"

C4_Witness ==
  /\ R.pc = "done" /\ ~R.offline /\ R.pre[Target] = File
  /\ R.caught = "File exists" /\ LoggedOk(R, "clone")

\* C5 as stated: in an online call the clone is invoked exactly when
\* inspection or update failed.
C5_Original ==
  (Settled(R) /\ ~R.offline) => (Invoked(R, "clone") <=> InspectOrUpdateFailed)

\* C5 amended: in an online call the steps are ordered; an update that
\* succeeds returns the path with neither delete nor clone invoked; the
\* delete is invoked exactly when cache-root creation, inspection or update
\* failed, and the clone exactly when that delete has completed.
C5_OnlineOrder ==
  (Started /\ ~R.offline) =>
    /\ InOrder(R)
    /\ LoggedOk(R, "pull") =>
         /\ R.pc = "done" /\ R.result = Target
         /\ ~Invoked(R, "rimraf") /\ ~Invoked(R, "clone")
    /\ Invoked(R, "clone") <=> LoggedOk(R, "rimraf")
    /\ Invoked(R, "rimraf") => R.caught # ""
    /\ (R.caught # "" /\ R.pc # "catch") => Invoked(R, "rimraf")

C5_Witness ==
  /\ ~R.offline /\ R.pc = "done" /\ R.caught = "pull"
  /\ LoggedOk(R, "rimraf") /\ LoggedOk(R, "clone")

\* C6: within one call the update and the clone are each attempted at most
\* once; when the clone fails after a failed update the call fails with the
\* clone's error and the target path stays deleted.
C6_NoRetries ==
  Started =>
    /\ Count(R, "pull") <= 1 /\ Count(R, "clone") <= 1
    /\ Logged(R, "clone") /\ ~LoggedOk(R, "clone") =>
         /\ R.pc = "failed" /\ R.err = "clone"
         /\ disk[Target] = None

C6_Witness ==
  /\ R.pc = "failed" /\ R.caught = "pull" /\ Logged(R, "clone")
  /\ ~LoggedOk(R, "clone") /\ R.pre[Target].kind = "repo" /\ disk[Target] = None

C8_ReturnsTargetPath ==
  R.pc = "done" =>
    /\ R.result = IF destOpt # NoDest THEN destOpt
                  ELSE PathJoin(cachedir, kebabCase(url))
    /\ (prev.pc = "done" /\ ~prev.offline /\ ~R.offline) => R.result = prev.result

C8_Witness ==
  /\ R.pc = "done" /\ ~R.offline /\ LoggedOk(R, "clone") /\ destOpt = NoDest
  /\ prev.pc = "done" /\ ~prev.offline /\ kebabCase(url) # url

(***************************************************************************)
(* Claims about generate() (process).                                      *)
(***************************************************************************)
GenStarted == gen.pc # "idle"
Jobs == DOMAIN gen.jobs
WrittenNow == {f \in Jobs : gen.jobs[f].wr = "written"}

\* C9 as stated: a file process writes holds render(source content, data)
\* when the source content has a template marker and the source content
\* itself when it has none, and the engine is invoked only on a marker.
C9_RenderOrCopy ==
  \A f \in WrittenNow :
    IF hasMarker(Decode(tree[f]))
      THEN out[f].data = Encode(render(Decode(tree[f]), data).out)
      ELSE out[f].data = tree[f] /\ ~gen.jobs[f].rend

\* C10: with overwrite=false a file is written only where nothing was, and
\* what is there is skipped without an error; a second such call after a
\* first that succeeded writes no file, leaves the tree as the first call
\* left it and returns an empty list.
C10_NoOverwrite ==
  (GenStarted /\ ~gen.overwrite) =>
    /\ \A f \in Jobs :
         /\ gen.jobs[f].wr = "written" => gen.pre[f].kind = "none"
         /\ gen.jobs[f].wr = "skipped" => gen.pre[f].kind # "none"
    /\ (prevGen.pc = "done" /\ ~prevGen.overwrite) =>
         /\ WrittenNow = {}
         /\ out = gen.pre
         /\ gen.pc = "done" => gen.result = <<>>

C10_Witness ==
  /\ gen.pc = "done" /\ ~gen.overwrite /\ prevGen.pc = "done" /\ ~prevGen.overwrite
  /\ Jobs = {FileA, FileB} /\ gen.result = <<>>
  /\ \A f \in Jobs : gen.jobs[f].wr = "skipped"
  /\ out[FileA] = Written(<<"W">>) /\ out[FileB] = Written(<<"n">>)

ResultSet == {gen.result[i] : i \in 1..Len(gen.result)}
SkippedNow == {f \in Jobs : gen.jobs[f].wr = "skipped"}

\* C11: when process succeeds the returned list holds exactly the
\* destination paths this call wrote, each once: every written path is in
\* it, and no path of a file skipped as binary or skipped because the
\* destination already existed is.
C11_ResultIsWritten ==
  gen.pc = "done" =>
    /\ ResultSet = WrittenNow
    /\ Len(gen.result) = Cardinality(WrittenNow)
    /\ \A f \in WrittenNow : out[f].kind = "file"
    /\ \A f \in DOMAIN tree : isBinaryPath(f) => f \notin ResultSet
    /\ \A f \in SkippedNow : f \notin ResultSet /\ out[f] = gen.pre[f]

C11_Witness ==
  /\ gen.pc = "done" /\ ~gen.overwrite /\ FilePng \in DOMAIN tree
  /\ Jobs = {FileA, FileB}
  /\ gen.jobs[FileA].wr = "skipped" /\ gen.jobs[FileB].wr = "written"
  /\ gen.result = <<FileB>>

\* The file lies below a directory named .git.
UnderGit(f) == \E i \in 1..(Len(f) - 1) : f[i] = <<"", ".git">>

\* C12 as stated: a call with overwrite=true that succeeds has written every
\* file of the source tree that is not binary and not below a .git
\* directory to its path below the destination directory, replacing what
\* was there, and lists it in the result; the file was rendered when it has
\* a marker and copied when it has none (what a copy holds is C9's subject).
C12_WholeTreeProcessed ==
  (gen.pc = "done" /\ gen.overwrite /\ src.exists) =>
    \A f \in DOMAIN tree :
      (~isBinaryPath(f) /\ ~UnderGit(f)) =>
        /\ f \in Jobs /\ gen.jobs[f].wr = "written"
        /\ f \in ResultSet
        /\ out[f] = Written(Encode(gen.jobs[f].str))
        /\ gen.jobs[f].rend = hasMarker(Decode(tree[f]))

QueueSet == {gen.queue[i] : i \in 1..Len(gen.queue)}

\* C13: a file below a directory named .git, at any depth of the source
\* tree, is never enumerated by the walk: it is never handed to the file
\* handler, never queued, never the file of a job (so never read and never
\* written) and never in the result.
C13_GitPruned ==
  \A f \in DOMAIN tree :
    UnderGit(f) =>
      /\ f \notin gen.todo /\ f \notin QueueSet
      /\ f \notin Jobs /\ f \notin ResultSet

C13_Witness ==
  /\ gen.pc = "done" /\ filterDir(src.name)
  /\ FileGit \in DOMAIN tree /\ FileNestedGit \in DOMAIN tree
  /\ ResultSet = {FileA, FileB}

\* The classifier's verdict: the extension of the file's name is a binary one.
ClassifiedBinary(f) == ToLowerExt(extname(f[Len(f)])) \in BinaryExtensions

\* C14: a file the classifier takes for binary is never queued, never the
\* file of a job (so never read, rendered or written) and never in the
\* result, whatever it holds; the destination tree, which lacked it, still
\* lacks it, and the file makes no error.
C14_BinarySkipped ==
  \A f \in DOMAIN tree :
    ClassifiedBinary(f) =>
      /\ f \notin QueueSet /\ f \notin Jobs /\ f \notin ResultSet
      /\ f \in DestPaths => out[f] = Absent
      /\ (gen.pc = "walk" /\ f \notin gen.todo) => gen.err = ""

C14_Witness ==
  /\ gen.pc = "done" /\ FilePng \in DOMAIN tree /\ hasMarker(Decode(tree[FilePng]))
  /\ FilePng \in Walked(src, tree)
  /\ ResultSet = {FileA, FileB} /\ out[FilePng] = Absent

\* The engine cannot render what the file holds.
Unrenderable(f) ==
  hasMarker(Decode(tree[f])) /\ ~render(Decode(tree[f]), data).ok
\* Whatever the job of f failed at, the call has failed.
FailsTheCall(f) == JobFailed(gen.jobs[f]) => gen.pc = "failed" /\ gen.err # ""
\* What this call wrote stays as written.
NoRollback(f) ==
  gen.jobs[f].wr = "written" => out[f] = Written(Encode(gen.jobs[f].str))

\* C15 as stated: a read, directory-creation, render or write failure (other
\* than EEXIST) of one file fails the whole call; what other jobs wrote
\* stays on disk as written; the failing file gets no output, not even a
\* partial one.
C15_Original ==
  \A f \in Jobs :
    /\ FailsTheCall(f)
    /\ NoRollback(f)
    /\ JobFailed(gen.jobs[f]) => out[f] = gen.pre[f]

\* C15 amended: such a failure fails the whole call and nothing is rolled
\* back; a file whose read, render or directory creation failed is never
\* written and its destination is as the call found it; a file whose write
\* failed has its destination as the call found it or, when the failure
\* came after the open, created or emptied with none of the content.
C15_FailureNoRollback ==
  \A f \in Jobs :
    /\ FailsTheCall(f)
    /\ NoRollback(f)
    /\ (gen.jobs[f].rd # "pending" /\ Unrenderable(f)) =>
         gen.jobs[f].rd \in {"EREAD", "ERENDER"}
    /\ (JobFailed(gen.jobs[f]) /\ gen.jobs[f].wr # "EWRITE") =>
         gen.jobs[f].wr = "wait" /\ out[f] = gen.pre[f]
    /\ gen.jobs[f].wr = "EWRITE" => out[f] \in {gen.pre[f], Truncated}

C15_Witness ==
  /\ gen.pc = "failed" /\ Jobs = {FileA, FileB}
  /\ gen.jobs[FileA].rd = "ERENDER" /\ out[FileA] = gen.pre[FileA]
  /\ gen.jobs[FileB].wr = "written" /\ out[FileB] = Written(<<"n">>)
  /\ gen.pre[FileB] = Absent

\* C17: under every interleaving of the jobs, process succeeds only when
\* every job has settled (written or skipped), none being in flight, and as
\* soon as that is so; it fails as soon as one job fails; the jobs in flight
\* are not halted by the failure: what is written after it was written by a
\* job that has run to its end.
C17_FailFast ==
  /\ gen.pc = "done" => \A f \in Jobs : JobOk(gen.jobs[f]) /\ ~InFlight(gen.jobs[f])
  /\ gen.pc = "jobs" =>
       /\ \A f \in Jobs : ~JobFailed(gen.jobs[f])
       /\ \E f \in Jobs : ~JobOk(gen.jobs[f])
  /\ (\E f \in Jobs : JobFailed(gen.jobs[f])) => gen.pc = "failed"
  /\ gen.late # {} => gen.pc = "failed"
  /\ \A f \in gen.late : JobOk(gen.jobs[f]) /\ NoRollback(f)

C17_Witness ==
  /\ gen.pc = "failed" /\ Jobs = {FileA, FileB}
  /\ gen.jobs[FileA].rd = "EREAD" /\ gen.err = "EREAD"
  /\ FileB \in gen.late /\ gen.pre[FileB] = Absent
  /\ out[FileB] = Written(<<"n">>)

\* Nothing is written but the destination directory itself.
OnlyDestRootMade == out = gen.pre \/ out = DestMkdirp(gen.pre, DestRoot)
\* The files of the complete list: all the walk reaches, less the binary ones.
WholeList == {f \in Walked(src, tree) : ~ClassifiedBinary(f)}

\* C18: no job exists (no file is read, none written) until the walk has
\* ended, and the jobs are then those of the complete file list; when the
\* source directory does not exist or the walk reports an error the call
\* fails, what was found before the error is dropped and no job runs, so
\* the call writes no destination file.
C18_WalkBeforeJobs ==
  /\ gen.pc \in {"mkdirp", "walk"} => Jobs = {} /\ OnlyDestRootMade
  /\ Jobs # {} => gen.todo = {} /\ src.exists /\ Jobs = WholeList /\ QueueSet = WholeList
  /\ gen.err = "walk" =>
       /\ gen.pc = "failed"
       /\ Jobs = {} /\ gen.result = <<>> /\ OnlyDestRootMade
  /\ (~src.exists /\ gen.pc \notin {"idle", "mkdirp", "walk"}) =>
       gen.pc = "failed" /\ Jobs = {} /\ OnlyDestRootMade

C18_Witness ==
  /\ gen.pc = "failed" /\ gen.err = "walk" /\ src.exists
  /\ QueueSet = {FileA} /\ FileB \in DOMAIN tree
  /\ Jobs = {} /\ gen.pre[DestRoot] = Absent /\ out = DestMkdirp(gen.pre, DestRoot)

\* C19: in every job the write starts only after the content has been read
\* (and rendered, when it has a marker) and the parent directory has been
\* made, and then at once; whenever a write has started the parent directory
\* of the destination path exists; a job whose read, render or directory
\* creation failed never writes.
C19_WriteAfterReadAndMkdir ==
  \A f \in Jobs :
    LET j == gen.jobs[f]
    IN  /\ j.wr # "wait" <=> (j.rd = "ok" /\ j.mk = "ok")
        /\ j.wr # "wait" =>
             /\ out[dirname(f)].kind = "dir"
             /\ j.rend = hasMarker(Decode(tree[f]))
             /\ j.str = IF j.rend THEN render(Decode(tree[f]), data).out
                        ELSE Decode(tree[f])
        /\ (j.rd \in {"EREAD", "ERENDER"} \/ j.mk = "EMKDIR") =>
             j.wr = "wait" /\ out[f] = gen.pre[f]

C19_Witness ==
  /\ Jobs = {FileA, FileB}
  /\ gen.jobs[FileB].wr = "written" /\ gen.pre[DirD] = Absent /\ out[DirD] = Folder
  /\ gen.jobs[FileA].wr = "written" /\ gen.jobs[FileA].rend
  /\ out[FileA] = Written(<<"W">>)

(***************************************************************************)
(* Claims about scaffold().                                                *)
(***************************************************************************)
\* C16: scaffold is acquire, then process: process starts only after
\* acquire has succeeded, on the path acquire returned; when acquire fails,
\* scaffold fails with its error and process never starts (nothing is made
\* or written in the destination); when process fails, scaffold fails with
\* its error and the working copy is left as acquire left it.
C16_ScaffoldOrder ==
  /\ sc.pc = "idle" => gen = NoGen
  /\ sc.pc = "download" => gen = NoGen /\ out = sc.pre
  /\ gen.pc # "idle" =>
       /\ R.pc = "done" /\ sc.source = R.result /\ sc.source = Target
       /\ src.exists /\ disk = sc.wc /\ disk[sc.source].kind = "repo"
       /\ gen.overwrite = sc.overwrite
  /\ R.pc = "failed" =>
       /\ gen = NoGen /\ out = sc.pre
       /\ sc.pc \in {"download", "failed"}
       /\ sc.pc = "failed" => sc.err = R.err
  /\ (sc.pc = "failed" /\ R.pc = "done") => gen.pc = "failed" /\ sc.err = gen.err
  /\ sc.pc = "done" => gen.pc = "done" /\ R.pc = "done"

C16_Witness ==
  /\ sc.pc = "failed" /\ R.pc = "done" /\ LoggedOk(R, "clone")
  /\ gen.pc = "failed" /\ gen.err = "ERENDER" /\ sc.err = "ERENDER"
  /\ disk[Target].kind = "repo" /\ disk = sc.wc
  /\ sc.pre[DestRoot] = Absent /\ out[DestRoot] = Folder

(***************************************************************************)
(* Claims about overlapping download() calls.                              *)
(***************************************************************************)
\* The call has its inspection, update, delete or clone in progress.
Acquiring(r) == r.pc \in {"stat", "pull", "rimraf", "clone"}
\* The call has a delete or a clone of the target in progress.
Destroying(r) == r.pc \in {"rimraf", "clone"}
InFlightCall(r) == r.pc \notin {"idle", "done", "failed"}

\* C20 as stated: while one call is at its inspect, update, delete or clone
\* steps the other call has no delete or clone of the same directory in
\* progress; and once no call is in flight, each call that succeeded has
\* left a directory holding a clean working copy.
C20_ExclusiveOwnership ==
  \A c, o \in Slots :
    (c # o /\ dl[c].pc # "idle" /\ dl[o].pc # "idle" /\ dl[c].dest = dl[o].dest) =>
      /\ ~(Acquiring(dl[c]) /\ Destroying(dl[o]))
      /\ (dl[c].pc = "done" /\ ~InFlightCall(dl[o])) =>
           disk[dl[c].dest].kind = "repo" /\ disk[dl[c].dest].st = "clean"
====
